---- MODULE Spec2Model ----
(***************************************************************************)
(* A model of model_deployment/app.py: the tegrastats MetricsMonitor (a    *)
(* reader thread feeding a queue.Queue(maxsize=1)), VideoReceiver's source *)
(* openers, InferenceLoop.run and the Streamlit script main() that wires   *)
(* them to the session state.                                              *)
(*                                                                         *)
(* Time is counted in ticks of 1/TicksPerSec second. A line of tegrastats  *)
(* output is the set of field groups it carries; a capture handle is an    *)
(* index into caps, a thread an index into threads, a subprocess an index  *)
(* into procs; index 0 is Python's None.                                   *)
(***************************************************************************)
EXTENDS Integers, Sequences, FiniteSets, TLC

\* ------------------------------------------------------------------ bounds
MaxThreads == 2     \* reader threads ever created
MonLines == 3       \* tegrastats lines printed, monitor specification
AppLines == 1       \* tegrastats lines printed, application specification
LoopFrames == 11    \* frames of the source, loop specification
AppFrames == 1      \* frames of a source, application specification
MaxRuns == 1        \* capture handles opened in one session
LoopTicks == 10     \* ticks the clock may advance, loop specification
MaxStep == 2        \* ticks between two readings of time.time()
ParseLines == 2     \* tegrastats lines printed, parser specification
StopLines == 1      \* tegrastats lines printed, specification of stop()
TicksPerSec == 10   \* ticks in a second

\* ------------------------------------------------------- program constants
QueueMaxsize == 1
ReportEvery == 5
DEFAULT_UDP_PORT == 5000
\* time.time() when the script starts: any time a second or more after 1970
Epoch == TicksPerSec

None == 0

\* ------------------------------------------------------- tegrastats lines
\* The groups TEGRAPATTERN requires, in the order it requires them.
AllGroups == {"ram", "cpu", "emc", "gr3d", "gpu_temp"}

\* The empty string, as a line.
EmptyStr == [n |-> 0, groups |-> {}, blank |-> TRUE]

\* What a line of output can be: every group, one group short, only white space.
LineShapes ==
  { [groups |-> AllGroups, blank |-> FALSE],
    [groups |-> AllGroups \ {"gpu_temp"}, blank |-> FALSE],
    [groups |-> {}, blank |-> TRUE] }

\* Every line as the pattern sees it: any of the groups present (none of them:
\* some other text), or only white space.
AllShapes ==
  {[groups |-> g, blank |-> FALSE] : g \in SUBSET AllGroups}
    \cup {[groups |-> {}, blank |-> TRUE]}

\* line.strip(): a line of white space strips to "".
Strip(line) == IF line.blank THEN EmptyStr ELSE line

\* data is None.
NoData == [n |-> 0, fields |-> {}]

SearchPartial(line) ==
  IF line.groups # {}
  THEN [matched |-> TRUE, n |-> line.n, fields |-> line.groups]
  ELSE [matched |-> FALSE, n |-> 0, fields |-> {}]

\* self._pattern.search(line): a match object, or None
Search(line) ==
  IF AllGroups \subseteq line.groups
  THEN [matched |-> TRUE, n |-> line.n, fields |-> line.groups]
  ELSE [matched |-> FALSE, n |-> 0, fields |-> {}]

\* m.groupdict()
GroupDict(m) == [n |-> m.n, fields |-> m.fields]

VARIABLES
  env,        \* the world of one execution: tool installed, lines printed, ...
  made,       \* get_metrics_monitor's cache holds the MetricsMonitor
  queue,      \* MetricsMonitor._queue
  proc,       \* MetricsMonitor._proc
  thread,     \* MetricsMonitor._thread
  last_raw,   \* MetricsMonitor._last_raw
  threads,    \* the reader threads ever started: pc, stdout read, locals
  procs,      \* the subprocesses ever spawned: "running", "terminated", "exited"
  nlines,     \* lines tegrastats has printed
  lat,        \* a call of latest() in progress: pc, data, raw
  lastPut,    \* history: the sample of the last put_nowait
  unread,     \* history: put_nowait calls since the last latest(), capped at 2
  mon_ref,    \* st.session_state["_mon_ref"] holds the monitor
  udp_running,\* st.session_state["udp_running"]
  udp_cap,    \* st.session_state["udp_cap"]
  caps,       \* the captures ever opened: open, url, frames left to read
  clock,      \* the last reading of time.time(), in ticks
  pc,         \* where the script is: "idle", or in run at "read", "infer", ...
  metrics,    \* main: metrics is the monitor, not None
  mode,       \* main: the route whose Start began the run, "none" without a run
  max_fps,    \* main: the Max FPS slider
  cap,        \* main: cap
  used_url,   \* main: used_url
  attempted,  \* history: the URLs this script run tried, and whether each opened
  last_emit,  \* run: last_emit
  frame_count,\* run: frame_count
  dt,         \* run: dt
  reports,    \* history: what fps_placeholder was written, and at which count
  drawn,      \* history: what _render_metrics drew last
  renders,    \* history: how often this run drew each kind of telemetry
  emits,      \* history: the timestamps of the frames inferred in the last second
  nreads,     \* history: calls of cap.read() in this run
  ninfer,     \* history: calls of predict_annotated in this run
  shown,      \* history: calls of stframe.image in this run
  lastDur,    \* history: how long the last inference took
  readFailed, \* history: a read of this run failed
  runEnd      \* history: how the last run ended, "running" while it runs

monVars == <<made, queue, proc, thread, last_raw, threads, procs, nlines,
             lat, lastPut, unread>>

sessVars == <<mon_ref, udp_running, udp_cap, caps, metrics, mode, max_fps, cap,
              used_url, attempted>>

loopVars == <<clock, pc, last_emit, frame_count, dt, reports, drawn, renders,
              emits, nreads, ninfer, shown, lastDur, readFailed, runEnd>>

vars == <<env, monVars, sessVars, loopVars>>

\* ------------------------------------------------------ MetricsMonitor
NoLat == [pc |-> "none", data |-> NoData, raw |-> EmptyStr]

NewThread == [pc |-> "which", stream |-> None, data |-> NoData, exit |-> ""]

\* MetricsMonitor.__init__
MonitorInit ==
  /\ queue = <<>>
  /\ proc = None
  /\ thread = None
  /\ last_raw = EmptyStr
  /\ threads = <<>>
  /\ procs = <<>>
  /\ nlines = 0
  /\ lat = NoLat
  /\ lastPut = NoData
  /\ unread = 0

Alive(t) == t # None /\ threads[t].pc # "done"

Exit(t, why) == [threads EXCEPT ![t].pc = "done", ![t].exit = why]

ReaderWhichUnchecked(t) ==
  /\ threads[t].pc = "which"
  /\ threads' = [threads EXCEPT ![t].pc = "popen"]
  /\ UNCHANGED <<env, sessVars, loopVars, made, queue, proc, thread, last_raw,
                 procs, nlines, lat, lastPut, unread>>

\* shutil.which / os.path.exists: no tool, no subprocess
ReaderWhich(t) ==
  /\ threads[t].pc = "which"
  /\ threads' = IF env.tool THEN [threads EXCEPT ![t].pc = "popen"]
                ELSE Exit(t, "absent")
  /\ UNCHANGED <<env, sessVars, loopVars, made, queue, proc, thread, last_raw, procs, nlines, lat,
                 lastPut, unread>>

\* self._proc = subprocess.Popen(...); the for loop then reads its stdout
ReaderPopen(t) ==
  /\ threads[t].pc = "popen"
  /\ procs' = Append(procs, "running")
  /\ proc' = Len(procs) + 1
  /\ threads' = [threads EXCEPT ![t].pc = "iter", ![t].stream = Len(procs) + 1]
  /\ UNCHANGED <<env, sessVars, loopVars, made, queue, thread, last_raw, nlines, lat, lastPut, unread>>

\* Popen raises (the file is not executable, no more processes, ...)
ReaderPopenFails(t) ==
  /\ threads[t].pc = "popen"
  /\ threads' = Exit(t, "error")
  /\ UNCHANGED <<env, sessVars, loopVars, made, queue, proc, thread, last_raw, procs, nlines, lat,
                 lastPut, unread>>

ReaderLineUnrecorded(t) ==
  /\ threads[t].pc = "iter"
  /\ procs[threads[t].stream] = "running"
  /\ nlines < env.lines
  /\ \E shape \in env.shapes :
       LET line == [n |-> nlines + 1, groups |-> shape.groups, blank |-> shape.blank]
           m == Search(line)
       IN /\ last_raw' = IF m.matched THEN last_raw ELSE Strip(line)
          /\ threads' = IF m.matched
                        THEN [threads EXCEPT ![t].pc = "evict", ![t].data = GroupDict(m)]
                        ELSE threads
  /\ nlines' = nlines + 1
  /\ UNCHANGED <<env, sessVars, loopVars, made, queue, proc, thread, procs, lat, lastPut, unread>>

\* One turn of "for line in self._proc.stdout" up to the match: the line is
\* recorded stripped, then searched.
ReaderLine(t) ==
  /\ threads[t].pc = "iter"
  /\ procs[threads[t].stream] = "running"
  /\ nlines < env.lines
  /\ \E shape \in env.shapes :
       LET line == [n |-> nlines + 1, groups |-> shape.groups, blank |-> shape.blank]
           m == Search(line)
       IN /\ last_raw' = Strip(line)
          /\ threads' = IF m.matched
                        THEN [threads EXCEPT ![t].pc = "evict", ![t].data = GroupDict(m)]
                        ELSE threads
  /\ nlines' = nlines + 1
  /\ UNCHANGED <<env, sessVars, loopVars, made, queue, proc, thread, procs, lat, lastPut, unread>>

\* The subprocess has ended: stdout is at its end and the loop is over.
ReaderEof(t) ==
  /\ threads[t].pc = "iter"
  /\ procs[threads[t].stream] # "running"
  /\ threads' = Exit(t, "eof")
  /\ UNCHANGED <<env, sessVars, loopVars, made, queue, proc, thread, last_raw, procs, nlines, lat,
                 lastPut, unread>>

ReaderIOErrorRaised(t) ==
  /\ threads[t].pc = "iter"
  /\ threads' = Exit(t, "error")
  /\ pc' = "idle"
  /\ runEnd' = "failed"
  /\ UNCHANGED <<env, sessVars, made, queue, proc, thread, last_raw, procs,
                 nlines, lat, lastPut, unread, clock, last_emit, frame_count,
                 dt, reports, drawn, renders, emits, nreads, ninfer, shown,
                 lastDur, readFailed>>

\* Reading or decoding a line raises.
ReaderIOError(t) ==
  /\ threads[t].pc = "iter"
  /\ threads' = Exit(t, "error")
  /\ UNCHANGED <<env, sessVars, loopVars, made, queue, proc, thread, last_raw, procs, nlines, lat,
                 lastPut, unread>>

ReaderEvictSkipped(t) ==
  /\ threads[t].pc = "evict"
  /\ threads' = [threads EXCEPT ![t].pc = "put"]
  /\ UNCHANGED <<env, sessVars, loopVars, made, queue, proc, thread, last_raw,
                 procs, nlines, lat, lastPut, unread>>

\* try: self._queue.get_nowait() except queue.Empty: pass
ReaderEvict(t) ==
  /\ threads[t].pc = "evict"
  /\ queue' = IF queue = <<>> THEN queue ELSE Tail(queue)
  /\ threads' = [threads EXCEPT ![t].pc = "put"]
  /\ UNCHANGED <<env, sessVars, loopVars, made, proc, thread, last_raw, procs, nlines, lat, lastPut, unread>>

\* self._queue.put_nowait(data): queue.Full is an Exception, and ends the thread
ReaderPut(t) ==
  /\ threads[t].pc = "put"
  /\ IF Len(queue) < QueueMaxsize
     THEN /\ queue' = Append(queue, threads[t].data)
          /\ threads' = [threads EXCEPT ![t].pc = "iter"]
          /\ lastPut' = threads[t].data
          /\ unread' = IF unread < 2 THEN unread + 1 ELSE 2
     ELSE /\ threads' = Exit(t, "full")
          /\ UNCHANGED <<queue, lastPut, unread>>
  /\ UNCHANGED <<env, sessVars, loopVars, made, proc, thread, last_raw, procs, nlines, lat>>

\* tegrastats ends by itself (it crashes, it is killed from outside).
ProcExits(p) ==
  /\ procs[p] = "running"
  /\ procs' = [procs EXCEPT ![p] = "exited"]
  /\ UNCHANGED <<env, sessVars, loopVars, made, queue, proc, thread, last_raw, threads, nlines, lat,
                 lastPut, unread>>

\* self._thread is None or not self._thread.is_alive()
AlwaysStart == TRUE
NoThreadActive == ~Alive(thread)

\* MetricsMonitor.start, as it changes the monitor
StartMonitor ==
  IF NoThreadActive
  THEN /\ threads' = Append(threads, NewThread)
       /\ thread' = Len(threads) + 1
  ELSE UNCHANGED <<threads, thread>>

StopMonitorUnpolled ==
  IF proc # None
  THEN procs' = [procs EXCEPT ![proc] = "terminated"]
  ELSE UNCHANGED procs

\* MetricsMonitor.stop, as it changes the subprocesses
StopMonitor ==
  IF proc # None /\ procs[proc] = "running"
  THEN procs' = [procs EXCEPT ![proc] = "terminated"]
  ELSE UNCHANGED procs

GetBlocking ==
  /\ lat.pc = "none"
  /\ queue # <<>>
  /\ lat' = [lat EXCEPT !.pc = "raw", !.data = Head(queue)]
  /\ queue' = Tail(queue)
  /\ unread' = 0

\* latest(): data = self._queue.get_nowait(), or None when it is empty
GetNowait ==
  /\ lat.pc = "none"
  /\ lat' = [lat EXCEPT !.pc = "raw",
                        !.data = IF queue = <<>> THEN NoData ELSE Head(queue)]
  /\ queue' = IF queue = <<>> THEN queue ELSE Tail(queue)
  /\ unread' = 0

\* latest(): return data, self._last_raw
LatestRaw ==
  /\ lat.pc = "raw"
  /\ lat' = [lat EXCEPT !.pc = "ret", !.raw = last_raw]
  /\ UNCHANGED <<env, sessVars, loopVars, made, queue, proc, thread, last_raw, threads,
                 procs, nlines, lastPut, unread>>

Reader ==
  \E t \in 1..Len(threads) :
    \/ ReaderWhich(t)
    \/ ReaderPopen(t)
    \/ ReaderPopenFails(t)
    \/ ReaderLine(t)
    \/ ReaderEof(t)
    \/ ReaderIOError(t)
    \/ ReaderEvict(t)
    \/ ReaderPut(t)

Tegrastats == \E p \in 1..Len(procs) : ProcExits(p)

\* MetricsMonitor.start()
MonStart ==
  /\ made
  /\ NoThreadActive => Len(threads) < MaxThreads
  /\ StartMonitor
  /\ UNCHANGED <<env, sessVars, loopVars, made, queue, proc, last_raw, procs,
                 nlines, lat, lastPut, unread>>

\* MetricsMonitor.stop()
MonStop ==
  /\ made
  /\ StopMonitor
  /\ UNCHANGED <<env, sessVars, loopVars, made, queue, proc, thread, last_raw,
                 threads, nlines, lat, lastPut, unread>>

\* latest() is called, and takes what the queue holds
CallLatest ==
  /\ made
  /\ GetNowait
  /\ UNCHANGED <<env, sessVars, loopVars, made, proc, thread, last_raw, threads,
                 procs, nlines, lastPut>>

\* latest() has returned, and its caller has used the pair
ReturnLatest ==
  /\ lat.pc = "ret"
  /\ lat' = NoLat
  /\ UNCHANGED <<env, sessVars, loopVars, made, queue, proc, thread, last_raw,
                 threads, procs, nlines, lastPut, unread>>

\* ------------------------------------------------------ VideoReceiver
\* A URL is the variant of the format string and the port formatted into it.
\* FFMPEG_URL_BIND_ANY.format(port=port)
FFMPEG_URL_BIND_ANY(port) == [variant |-> "any", port |-> port]

\* FFMPEG_URL_BIND_ALL.format(port=port)
FFMPEG_URL_BIND_ALL(port) == [variant |-> "all", port |-> port]

NoUrl == [variant |-> "none", port |-> 0]

\* What open_file and open_webcam open: a path, the index of a device.
LocalUrl(route) == [variant |-> route, port |-> 0]

\* open_udp_ffmpeg(port), where opens[variant] tells whether
\* cv2.VideoCapture(url, CAP_FFMPEG) comes back opened: cap is the URL the
\* capture returned was made from (NoUrl: None is returned), url the URL
\* returned with it, tried the URLs a capture was made from, in order.
OpenUdpFfmpegSwapped(port, opens) ==
  LET url1 == FFMPEG_URL_BIND_ANY(port)
      url2 == FFMPEG_URL_BIND_ALL(port)
  IN IF opens[url2.variant]
     THEN [cap |-> url2, url |-> url2, tried |-> <<url2>>]
     ELSE IF opens[url1.variant]
          THEN [cap |-> url1, url |-> url1, tried |-> <<url2, url1>>]
          ELSE [cap |-> NoUrl, url |-> NoUrl, tried |-> <<url2, url1>>]

OpenUdpFfmpegUnchecked(port, opens) ==
  LET url1 == FFMPEG_URL_BIND_ANY(port)
      url2 == FFMPEG_URL_BIND_ALL(port)
  IN IF opens[url1.variant]
     THEN [cap |-> url1, url |-> url1, tried |-> <<url1>>]
     ELSE [cap |-> url2, url |-> url2, tried |-> <<url1, url2>>]

OpenUdpFfmpeg(port, opens) ==
  LET url1 == FFMPEG_URL_BIND_ANY(port)
      url2 == FFMPEG_URL_BIND_ALL(port)
  IN IF opens[url1.variant]
     THEN [cap |-> url1, url |-> url1, tried |-> <<url1>>]
     ELSE IF opens[url2.variant]
          THEN [cap |-> url2, url |-> url2, tried |-> <<url1, url2>>]
          ELSE [cap |-> NoUrl, url |-> NoUrl, tried |-> <<url1, url2>>]

\* ------------------------------------------------------ InferenceLoop
Max(a, b) == IF a > b THEN a ELSE b

\* now - last_emit < 1.0 / max(max_fps, 1), the times in ticks
NeverTooSoon(now, last, fps) == FALSE
TooSoon(now, last, fps) == (now - last) * Max(fps, 1) < TicksPerSec

\* f"{1.0 / max(dt, 1e-6):.1f}" for a dt of d ticks, in tenths: 1e-6 s is
\* shorter than a tick, and the quotient is rounded to the nearest tenth.
PipelineFps(d) ==
  IF d = 0 THEN 10 * 1000000
  ELSE (2 * 10 * TicksPerSec + d) \div (2 * d)

\* frame_count % 5 == 0
ReportDueAfter(count) == count % ReportEvery = 1
ReportDue(count) == count % ReportEvery = 0

NoRenders == [sample |-> 0, raw |-> 0, waiting |-> 0]

NoDraw == [kind |-> "none", data |-> NoData, raw |-> EmptyStr]

\* The timestamps of s no more than a second older than its last.
Recent(s) ==
  LET newest == s[Len(s)]
  IN SelectSeq(s, LAMBDA t : t + TicksPerSec >= newest)

\* time.time(): not before the last reading, and bounded by the execution
Later(t) == t >= clock /\ t <= clock + MaxStep /\ (t = clock \/ t <= env.tmax)

\* run, up to the loop: last_emit = 0.0, frame_count = 0
RunBegins ==
  /\ pc' = "read"
  /\ last_emit' = 0
  /\ frame_count' = 0
  /\ dt' = 0
  /\ reports' = <<>>
  /\ drawn' = NoDraw
  /\ renders' = NoRenders
  /\ emits' = <<>>
  /\ nreads' = 0
  /\ ninfer' = 0
  /\ shown' = 0
  /\ lastDur' = 0
  /\ readFailed' = FALSE
  /\ runEnd' = "running"
  /\ UNCHANGED clock

\* A script run that does not reach run: the page is drawn anew, and a run
\* that was going on is over.
NoRunBegins ==
  /\ pc' = "idle"
  /\ last_emit' = 0
  /\ frame_count' = 0
  /\ dt' = 0
  /\ reports' = <<>>
  /\ drawn' = NoDraw
  /\ renders' = NoRenders
  /\ emits' = <<>>
  /\ nreads' = 0
  /\ ninfer' = 0
  /\ shown' = 0
  /\ lastDur' = 0
  /\ readFailed' = FALSE
  /\ runEnd' = IF pc = "idle" THEN runEnd ELSE "interrupted"
  /\ UNCHANGED clock

\* ok, frame = cap.read() gives a frame; now = time.time(); the frame is
\* dropped when it comes too soon after the last one emitted.
LoopReadFrame ==
  /\ pc = "read"
  /\ caps[cap].open /\ caps[cap].left > 0
  /\ caps' = [caps EXCEPT ![cap].left = @ - 1]
  /\ nreads' = nreads + 1
  /\ \E now \in clock..(clock + MaxStep) :
       /\ Later(now)
       /\ clock' = now
       /\ IF TooSoon(now, last_emit, max_fps)
          THEN UNCHANGED <<pc, last_emit>>
          ELSE pc' = "infer" /\ last_emit' = now
  /\ UNCHANGED <<env, monVars, mon_ref, udp_running, udp_cap, metrics, mode,
                 max_fps, cap, used_url, attempted, frame_count, dt, reports,
                 drawn, renders, emits, ninfer, shown, lastDur, readFailed, runEnd>>

\* After a read that failed: break, and main goes on to cap.release() and,
\* on the UDP route, to udp_running = False.
ReadRetried ==
  /\ readFailed' = TRUE
  /\ UNCHANGED <<pc, runEnd, caps, udp_running>>

ReadFailed ==
  /\ readFailed' = TRUE
  /\ pc' = "idle"
  /\ runEnd' = "exhausted"
  /\ caps' = [caps EXCEPT ![cap].open = FALSE]
  /\ udp_running' = IF mode = "udp" THEN FALSE ELSE udp_running

\* ok, frame = cap.read() gives no frame.
LoopReadFails ==
  /\ pc = "read"
  /\ ~(caps[cap].open /\ caps[cap].left > 0)
  /\ nreads' = nreads + 1
  /\ ReadFailed
  /\ UNCHANGED <<env, monVars, mon_ref, udp_cap, metrics, mode, max_fps, cap,
                 used_url, attempted, clock, last_emit, frame_count, dt,
                 reports, drawn, renders, emits, ninfer, shown, lastDur>>

\* t0 = time.time(); predict_annotated; dt = time.time() - t0; frame_count += 1;
\* the throughput is written when frame_count % 5 == 0.
LoopInfer ==
  /\ pc = "infer"
  /\ \E t1 \in clock..(clock + MaxStep) :
       /\ Later(t1)
       /\ clock' = t1
       /\ dt' = t1 - clock
       /\ lastDur' = t1 - clock
  /\ emits' = Recent(Append(emits, clock))
  /\ ninfer' = ninfer + 1
  /\ frame_count' = frame_count + 1
  /\ reports' = IF ReportDue(frame_count')
                THEN Append(reports, [count |-> frame_count', fps |-> PipelineFps(dt')])
                ELSE reports
  /\ pc' = "image"
  /\ UNCHANGED <<env, monVars, sessVars, last_emit, drawn, renders, nreads,
                 shown, readFailed, runEnd>>

LoopInferRetried ==
  /\ pc = "infer"
  /\ ninfer' = ninfer + 1
  /\ UNCHANGED <<env, monVars, sessVars, clock, pc, last_emit, frame_count, dt,
                 reports, drawn, renders, emits, nreads, shown, lastDur,
                 readFailed, runEnd>>

\* predict_annotated raises: run and main are left by the exception.
LoopInferFails ==
  /\ pc = "infer"
  /\ ninfer' = ninfer + 1
  /\ emits' = Recent(Append(emits, clock))
  /\ pc' = "idle"
  /\ runEnd' = "failed"
  /\ UNCHANGED <<env, monVars, sessVars, clock, last_emit, frame_count, dt,
                 reports, drawn, renders, nreads, shown, lastDur, readFailed>>

\* stframe.image(...)
LoopImage ==
  /\ pc = "image"
  /\ shown' = shown + 1
  /\ pc' = "render"
  /\ UNCHANGED <<env, monVars, sessVars, clock, last_emit, frame_count, dt,
                 reports, drawn, renders, emits, nreads, ninfer, lastDur,
                 readFailed, runEnd>>

\* _render_metrics: self.metrics.latest() is called, and takes what the
\* queue holds
RenderLatest ==
  /\ pc = "render"
  /\ metrics
  /\ GetNowait
  /\ UNCHANGED <<env, sessVars, loopVars, made, proc, thread, last_raw, threads,
                 procs, nlines, lastPut>>

KindRawFirst(data, raw) ==
  IF raw # EmptyStr THEN "raw"
  ELSE IF data # NoData THEN "sample"
  ELSE "waiting"

\* if data: ... else: if last_raw: ... else: ...
Kind(data, raw) ==
  IF data # NoData THEN "sample"
  ELSE IF raw # EmptyStr THEN "raw"
  ELSE "waiting"

\* _render_metrics, from "with self.mon_placeholder.container()" on. What
\* show_cuda_mem adds to the page is not modelled.
RenderDraw ==
  /\ pc = "render"
  /\ IF metrics THEN lat.pc = "ret" ELSE lat.pc = "none"
  /\ LET kind == Kind(lat.data, lat.raw)
     IN /\ drawn' = [kind |-> kind, data |-> lat.data, raw |-> lat.raw]
        /\ renders' = [renders EXCEPT ![kind] = @ + 1]
  /\ lat' = NoLat
  /\ pc' = "read"
  /\ UNCHANGED <<env, sessVars, made, queue, proc, thread, last_raw, threads,
                 procs, nlines, lastPut, unread, clock, last_emit, frame_count,
                 dt, reports, emits, nreads, ninfer, shown, lastDur,
                 readFailed, runEnd>>

\* ------------------------------------------------------ main
Variants == {"any", "all"}

\* Streamlit stops a running script where it calls into st.*, to run it anew:
\* in run, at stframe.image and at the drawing of _render_metrics.
Interruptible ==
  \/ pc = "idle"
  \/ pc = "image"
  \/ pc = "render" /\ (IF metrics THEN lat.pc = "ret" ELSE lat.pc = "none")

\* main, the monitoring section: get_metrics_monitor() makes and starts the
\* monitor the first time it is called and returns the same one from then on;
\* with the toggle off the monitor remembered is stopped and forgotten.
Monitoring(on) ==
  /\ metrics' = on
  /\ mon_ref' = on
  /\ IF on
     THEN IF made
          THEN UNCHANGED <<made, threads, thread, procs>>
          ELSE made' = TRUE /\ StartMonitor /\ UNCHANGED procs
     ELSE /\ IF mon_ref THEN StopMonitor ELSE UNCHANGED procs
          /\ UNCHANGED <<made, threads, thread>>
  /\ lat' = NoLat
  /\ UNCHANGED <<queue, proc, last_raw, nlines, lastPut, unread>>

\* A script run that opens nothing and ends.
NoRun ==
  /\ mode' = "none"
  /\ cap' = None
  /\ used_url' = NoUrl
  /\ NoRunBegins

\* A widget other than the buttons changes.
Rerun(on, fps) ==
  /\ Interruptible
  /\ Monitoring(on)
  /\ max_fps' = fps
  /\ attempted' = <<>>
  /\ NoRun
  /\ UNCHANGED <<env, caps, udp_running, udp_cap>>

\* "Start" on the file routes, "Start Webcam": open_file, open_webcam.
StartLocal(on, fps, route, opened) ==
  /\ Interruptible
  /\ Monitoring(on)
  /\ max_fps' = fps
  /\ attempted' = <<[url |-> LocalUrl(route), ok |-> opened]>>
  /\ IF opened
     THEN /\ Len(caps) < MaxRuns
          /\ \E left \in 0..env.frames :
               caps' = Append(caps, [open |-> TRUE, url |-> LocalUrl(route), left |-> left])
          /\ cap' = Len(caps) + 1
          /\ used_url' = NoUrl
          /\ mode' = route
          /\ RunBegins
     ELSE NoRun /\ UNCHANGED caps
  /\ UNCHANGED <<env, udp_running, udp_cap>>

\* if cap is None: st.error(...); return
CapIsNone(r) == r.cap = NoUrl

\* "Start UDP Stream"
StartUdp(on, fps, port, opens) ==
  /\ Interruptible
  /\ Monitoring(on)
  /\ max_fps' = fps
  /\ IF udp_running
     THEN /\ attempted' = <<>>
          /\ NoRun
          /\ UNCHANGED <<caps, udp_running, udp_cap>>
     ELSE LET r == OpenUdpFfmpeg(port, opens)
          IN /\ attempted' = [i \in 1..Len(r.tried) |->
                                [url |-> r.tried[i], ok |-> opens[r.tried[i].variant]]]
             /\ IF CapIsNone(r)
                THEN NoRun /\ UNCHANGED <<caps, udp_running, udp_cap>>
                ELSE /\ Len(caps) < MaxRuns
                     /\ \E left \in 0..env.frames :
                          caps' = Append(caps, [open |-> opens[r.cap.variant],
                                                url |-> r.cap, left |-> left])
                     /\ cap' = Len(caps) + 1
                     /\ used_url' = r.url
                     /\ udp_cap' = Len(caps) + 1
                     /\ udp_running' = TRUE
                     /\ mode' = "udp"
                     /\ RunBegins
  /\ UNCHANGED env

\* "Stop UDP Stream"
StopUdp(on, fps) ==
  /\ Interruptible
  /\ Monitoring(on)
  /\ max_fps' = fps
  /\ attempted' = <<>>
  /\ NoRun
  /\ IF udp_running
     THEN /\ caps' = IF udp_cap # None /\ caps[udp_cap].open
                     THEN [caps EXCEPT ![udp_cap].open = FALSE]
                     ELSE caps
          /\ udp_running' = FALSE
     ELSE UNCHANGED <<caps, udp_running>>
  /\ UNCHANGED <<env, udp_cap>>

\* ------------------------------------------------------ the application
SessionInit ==
  /\ MonitorInit
  /\ mon_ref = FALSE
  /\ udp_running = FALSE
  /\ udp_cap = None
  /\ caps = <<>>
  /\ clock = Epoch
  /\ pc = "idle"
  /\ metrics = FALSE
  /\ mode = "none"
  /\ cap = None
  /\ used_url = NoUrl
  /\ attempted = <<>>
  /\ last_emit = 0
  /\ frame_count = 0
  /\ dt = 0
  /\ reports = <<>>
  /\ drawn = NoDraw
  /\ renders = NoRenders
  /\ emits = <<>>
  /\ nreads = 0
  /\ ninfer = 0
  /\ shown = 0
  /\ lastDur = 0
  /\ readFailed = FALSE
  /\ runEnd = "none"

Init ==
  /\ env \in [tool : BOOLEAN, lines : {AppLines}, frames : {AppFrames},
              tmax : {Epoch}, fps : {{5}},
              ports : {{DEFAULT_UDP_PORT}}, shapes : {LineShapes}]
  /\ max_fps = 5
  /\ made = FALSE
  /\ SessionInit

Script ==
  \E on \in BOOLEAN, fps \in env.fps :
    \/ Rerun(on, fps)
    \/ \E route \in {"file", "webcam"}, opened \in BOOLEAN :
         StartLocal(on, fps, route, opened)
    \/ \E port \in env.ports, opens \in [Variants -> BOOLEAN] :
         StartUdp(on, fps, port, opens)
    \/ StopUdp(on, fps)

Loop ==
  \/ LoopReadFrame
  \/ LoopReadFails
  \/ LoopInfer
  \/ LoopInferFails
  \/ LoopImage
  \/ RenderLatest
  \/ LatestRaw
  \/ RenderDraw

Next == Script \/ Loop \/ Reader \/ Tegrastats

Spec == Init /\ [][Next]_vars

\* ------------------------------------------------------ the monitor alone
\* A MetricsMonitor whose methods are called in any order, beside its thread.
InitMonitor ==
  /\ env \in [tool : BOOLEAN, lines : {MonLines}, frames : {0}, tmax : {Epoch},
              fps : {{5}}, ports : {{DEFAULT_UDP_PORT}}, shapes : {LineShapes}]
  /\ max_fps = 5
  /\ made = TRUE
  /\ SessionInit

NextMonitor ==
  \/ MonStart
  \/ MonStop
  \/ CallLatest
  \/ LatestRaw
  \/ ReturnLatest
  \/ Reader
  \/ Tegrastats

SpecMonitor == InitMonitor /\ [][NextMonitor]_vars

\* The same with fewer lines, and with a reader thread that is scheduled as
\* long as it can run.
InitStop ==
  /\ env \in [tool : BOOLEAN, lines : {StopLines}, frames : {0}, tmax : {Epoch},
              fps : {{5}}, ports : {{DEFAULT_UDP_PORT}}, shapes : {LineShapes}]
  /\ max_fps = 5
  /\ made = TRUE
  /\ SessionInit

SpecMonitorFair == InitStop /\ [][NextMonitor]_vars /\ WF_vars(Reader)

\* ------------------------------------------------------ the parser
\* The monitor get_metrics_monitor() has made and started, tegrastats
\* printing lines of every shape, and latest() called beside its thread.
InitParser ==
  /\ env \in [tool : {TRUE}, lines : {ParseLines}, frames : {0}, tmax : {Epoch},
              fps : {{5}}, ports : {{DEFAULT_UDP_PORT}}, shapes : {AllShapes}]
  /\ max_fps = 5
  /\ made = TRUE
  /\ queue = <<>>
  /\ proc = None
  /\ thread = 1
  /\ last_raw = EmptyStr
  /\ threads = <<NewThread>>
  /\ procs = <<>>
  /\ nlines = 0
  /\ lat = NoLat
  /\ lastPut = NoData
  /\ unread = 0
  /\ mon_ref = TRUE
  /\ udp_running = FALSE
  /\ udp_cap = None
  /\ caps = <<>>
  /\ clock = Epoch
  /\ pc = "idle"
  /\ metrics = TRUE
  /\ mode = "none"
  /\ cap = None
  /\ used_url = NoUrl
  /\ attempted = <<>>
  /\ last_emit = 0
  /\ frame_count = 0
  /\ dt = 0
  /\ reports = <<>>
  /\ drawn = NoDraw
  /\ renders = NoRenders
  /\ emits = <<>>
  /\ nreads = 0
  /\ ninfer = 0
  /\ shown = 0
  /\ lastDur = 0
  /\ readFailed = FALSE
  /\ runEnd = "none"

NextParser ==
  \/ CallLatest
  \/ LatestRaw
  \/ ReturnLatest
  \/ Reader
  \/ Tegrastats

SpecParser == InitParser /\ [][NextParser]_vars

\* ------------------------------------------------------ one run of the loop
\* Monitors as a run can find them: none (the toggle is off), one whose
\* thread found no tegrastats, one whose thread read a line before
\* tegrastats ended.
FullLine == [n |-> 1, groups |-> AllGroups, blank |-> FALSE]

MonitorOff ==
  /\ env.tool = FALSE
  /\ made = FALSE
  /\ metrics = FALSE
  /\ mon_ref = FALSE
  /\ MonitorInit

MonitorWithoutTool ==
  /\ env.tool = FALSE
  /\ made = TRUE
  /\ metrics = TRUE
  /\ mon_ref = TRUE
  /\ queue = <<>>
  /\ proc = None
  /\ thread = 1
  /\ last_raw = EmptyStr
  /\ threads = <<[pc |-> "done", stream |-> None, data |-> NoData, exit |-> "absent"]>>
  /\ procs = <<>>
  /\ nlines = 0
  /\ lat = NoLat
  /\ lastPut = NoData
  /\ unread = 0

MonitorWithSample ==
  /\ env.tool = TRUE
  /\ made = TRUE
  /\ metrics = TRUE
  /\ mon_ref = TRUE
  /\ queue = <<GroupDict(Search(FullLine))>>
  /\ proc = 1
  /\ thread = 1
  /\ last_raw = FullLine
  /\ threads = <<[pc |-> "done", stream |-> 1, data |-> GroupDict(Search(FullLine)),
                  exit |-> "eof"]>>
  /\ procs = <<"exited">>
  /\ nlines = 1
  /\ lat = NoLat
  /\ lastPut = GroupDict(Search(FullLine))
  /\ unread = 1

\* "Start" has opened a file of LoopFrames frames and run begins.
InitLoop ==
  /\ env \in [tool : BOOLEAN, lines : {1}, frames : {LoopFrames},
              tmax : {Epoch + LoopTicks}, fps : {{5, 10}},
              ports : {{DEFAULT_UDP_PORT}}, shapes : {LineShapes}]
  /\ max_fps \in env.fps
  /\ MonitorOff \/ MonitorWithoutTool \/ MonitorWithSample
  /\ udp_running = FALSE
  /\ udp_cap = None
  /\ caps = <<[open |-> TRUE, url |-> LocalUrl("file"), left |-> LoopFrames]>>
  /\ clock = Epoch
  /\ pc = "read"
  /\ mode = "file"
  /\ cap = 1
  /\ used_url = NoUrl
  /\ attempted = <<[url |-> LocalUrl("file"), ok |-> TRUE]>>
  /\ last_emit = 0
  /\ frame_count = 0
  /\ dt = 0
  /\ reports = <<>>
  /\ drawn = NoDraw
  /\ renders = NoRenders
  /\ emits = <<>>
  /\ nreads = 0
  /\ ninfer = 0
  /\ shown = 0
  /\ lastDur = 0
  /\ readFailed = FALSE
  /\ runEnd = "running"

SpecLoop == InitLoop /\ [][Loop]_vars

\* ------------------------------------------------------ the claims
LiveThreads == {t \in 1..Len(threads) : threads[t].pc # "done"}

\* C1: after two writes with no latest() between them and none since, latest()
\* returns the second; latest() never returns a sample other than the one
\* written last; with no write since the last latest(), latest() returns None.
FreshnessSlotRead ==
  [][lat.pc = "none" /\ lat'.pc = "raw" =>
       /\ unread = 2 => lat'.data = lastPut
       /\ unread = 0 => lat'.data = NoData
       /\ lat'.data # NoData => lat'.data = lastPut]_vars

\* C2: the queue never holds more than one sample, put_nowait finds it empty,
\* and no reader thread has ended on queue.Full.
WriteAlwaysSucceeds ==
  /\ Len(queue) <= 1
  /\ \A t \in 1..Len(threads) :
       /\ threads[t].pc = "put" => queue = <<>>
       /\ threads[t].exit # "full"

\* A reader is between its eviction and its put of a second sample while
\* latest() has taken the first.
WriteBesideLatest ==
  \E t \in 1..Len(threads) :
    /\ threads[t].pc = "put"
    /\ threads[t].data.n > 1
    /\ lat.pc = "raw"
    /\ lat.data # NoData

\* C9: at most one reader thread is alive; a thread is only started while
\* none is alive, one at a time, and start() with none alive starts one.
StartIdempotent ==
  [][/\ Cardinality({t \in 1..Len(threads') : threads'[t].pc # "done"}) <= 1
     /\ Len(threads') # Len(threads) =>
          /\ ~Alive(thread)
          /\ Len(threads') = Len(threads) + 1
          /\ thread' = Len(threads')
          /\ threads'[thread'].pc = "which"
     /\ MonStart /\ ~Alive(thread) => Len(threads') = Len(threads) + 1]_vars

\* start() has started a second thread after the first one ended.
StartedAgain ==
  /\ Len(threads) = 2
  /\ threads[1].pc = "done"
  /\ thread = 2
  /\ Alive(thread)

\* C3: the frames inferred within a second lie at least 1/max_fps apart and
\* are at most max_fps + 1; every frame read was dropped or inferred.
RateLimited ==
  /\ \A i \in 1..(Len(emits) - 1) :
       (emits[i + 1] - emits[i]) * max_fps >= TicksPerSec
  /\ Len(emits) <= max_fps + 1
  /\ ninfer <= nreads
  /\ frame_count <= ninfer

\* A full second of frames at the highest rate allowed, with frames dropped.
RateReached ==
  /\ Len(emits) = max_fps + 1
  /\ nreads > ninfer

\* C7: a read that failed has ended the run as exhausted, and from then on
\* the run reads, infers, shows, counts, reports and draws nothing.
FailedReadEndsRun ==
  [][readFailed' =>
       /\ pc' = "idle"
       /\ runEnd' = "exhausted"
       /\ readFailed =>
            UNCHANGED <<nreads, ninfer, shown, frame_count, reports, renders, drawn>>]_vars

\* A run that showed a frame and then failed to read, the reader thread
\* still at work.
ReadFailedAfterFrame ==
  /\ readFailed
  /\ shown > 0
  /\ LiveThreads # {}

\* C8: the throughput is written in the step that counts an emitted frame,
\* when and only when the count is a multiple of 5, and the figure is that
\* of the inference just made.
ThroughputCadence ==
  [][/\ Len(reports') = frame_count' \div 5
     /\ reports' # reports =>
          /\ Len(reports') = Len(reports) + 1
          /\ frame_count' = frame_count + 1
          /\ frame_count' % 5 = 0
          /\ ninfer' = frame_count'
          /\ reports'[Len(reports')] =
               [count |-> frame_count', fps |-> PipelineFps(lastDur')]
     /\ frame_count' # frame_count /\ frame_count' % 5 = 0 =>
          reports' # reports]_vars

\* The 5th and the 10th frame reported, with different figures.
TwoReports ==
  /\ Len(reports) = 2
  /\ reports[1].count = 5
  /\ reports[2].count = 10
  /\ reports[1].fps # reports[2].fps

\* C4: a capture is open only while the run it was opened for goes on.
HandleReleasedOnEveryExit ==
  \A c \in 1..Len(caps) : caps[c].open => c = cap /\ runEnd = "running"

\* The UDP candidates this script run tried, if it tried any.
TriedUdp == attempted # <<>> /\ attempted[1].url.variant \in Variants

AllFailed == TriedUdp /\ \A i \in 1..Len(attempted) : ~attempted[i].ok

\* C5: the candidates are tried in order, bind-any then bind-all, the next
\* one only after a failure; the first that opens is the capture of the run
\* and its URL the one reported.
OrderedFallback ==
  TriedUdp =>
    /\ Len(attempted) <= 2
    /\ \A i \in 1..Len(attempted) :
         /\ attempted[i].url.variant = <<"any", "all">>[i]
         /\ attempted[i].url.port \in env.ports
         /\ i < Len(attempted) => ~attempted[i].ok
    /\ attempted[Len(attempted)].ok =>
         /\ used_url = attempted[Len(attempted)].url
         /\ cap # None
         /\ caps[cap].url = used_url
    /\ ~attempted[Len(attempted)].ok => Len(attempted) = 2

\* The first candidate failed and the second opened.
SecondCandidateOpened ==
  /\ TriedUdp
  /\ Len(attempted) = 2
  /\ ~attempted[1].ok
  /\ attempted[2].ok
  /\ used_url.variant = "all"

\* C6, as amended: when every candidate fails, nothing is returned, run is
\* not entered, udp_running is False and udp_cap holds no open capture.
AllCandidatesFail ==
  AllFailed =>
    /\ Len(attempted) = 2
    /\ cap = None
    /\ used_url = NoUrl
    /\ pc = "idle"
    /\ runEnd # "running"
    /\ nreads = 0
    /\ ~udp_running
    /\ udp_cap # None => ~caps[udp_cap].open

\* C6, as claimed: ... and udp_cap holds no capture at all.
AllCandidatesFailNoHandle ==
  AllFailed =>
    /\ cap = None
    /\ used_url = NoUrl
    /\ pc = "idle"
    /\ ~udp_running
    /\ udp_cap = None

\* Every candidate failed, after a UDP run that had ended.
AllFailedAfterRun == AllFailed /\ udp_cap # None

\* C10: without tegrastats no subprocess is spawned, every thread ends at
\* once, latest() returns (None, "") and each frame shown is drawn with the
\* placeholder.
ToolAbsentIsQuiet ==
  ~env.tool =>
    /\ procs = <<>> /\ proc = None
    /\ \A t \in 1..Len(threads) :
         \/ threads[t].pc = "which"
         \/ threads[t].pc = "done" /\ threads[t].exit = "absent"
    /\ queue = <<>> /\ last_raw = EmptyStr
    /\ lat.data = NoData /\ lat.raw = EmptyStr
    /\ renders.sample = 0 /\ renders.raw = 0
    /\ drawn.kind \in {"none", "waiting"}
    /\ runEnd = "exhausted" => renders.waiting = frame_count /\ shown = frame_count

\* Without tegrastats, a monitored run has shown a frame and ended exhausted.
CompletedWithoutTool ==
  /\ ~env.tool
  /\ metrics
  /\ threads # <<>> /\ threads[1].exit = "absent"
  /\ runEnd = "exhausted"
  /\ renders.waiting > 0

\* The reader threads that ended on an error or at the end of their
\* subprocess's output.
FailedThreads ==
  {t \in 1..Len(threads) : threads[t].pc = "done" /\ threads[t].exit \in {"error", "eof"}}

ReaderDead == LiveThreads = {} /\ FailedThreads # {}

\* C11, as amended: the step that ends a reader thread changes nothing of the
\* session, of the loop, of the queue or of a latest() in progress; once the
\* reader is dead, latest() returns the sample left in the queue if there is
\* one unread, None otherwise, with the last line read or "".
TelemetryFailuresAbsorbed ==
  [][/\ (\E t \in 1..Len(threads) : threads[t].pc # "done" /\ threads'[t].pc = "done") =>
          UNCHANGED <<sessVars, loopVars, queue, last_raw, lat>>
     /\ ReaderDead /\ lat.pc = "none" /\ lat'.pc = "raw" =>
          \/ lat'.data = NoData
          \/ unread > 0 /\ lat'.data = lastPut
     /\ ReaderDead /\ lat.pc = "raw" /\ lat'.pc = "ret" =>
          /\ lat'.raw = last_raw
          /\ last_raw = EmptyStr \/ last_raw.n = nlines]_vars

\* C11, as claimed: once the reader is dead, latest() returns no sample.
TelemetryFailuresLeaveNoSample ==
  [][ReaderDead /\ lat.pc = "none" /\ lat'.pc = "raw" => lat'.data = NoData]_vars

\* The reader ended on an error, and the run goes on: latest() has returned
\* the sample that was left and the frame's telemetry is about to be drawn.
ReaderFailedDuringRun ==
  /\ ReaderDead
  /\ \E t \in FailedThreads : threads[t].exit = "error"
  /\ runEnd = "running"
  /\ pc = "render"
  /\ lat.pc = "ret"
  /\ lat.data # NoData

\* C12: whatever the reader thread is doing (not started, reading, between
\* its eviction and its put, ended) and whatever the queue holds, each step
\* of a call of latest() can be taken at once: the call, which takes what
\* the queue holds or None, the reading of _last_raw, the return.
LatestNonBlocking ==
  /\ lat.pc = "none" => ENABLED CallLatest
  /\ lat.pc = "raw" => ENABLED LatestRaw
  /\ lat.pc = "ret" => ENABLED ReturnLatest

\* latest() has found the queue empty and returned None while the reader is
\* between its eviction and its put of a second sample.
LatestDuringWrite ==
  /\ \E t \in 1..Len(threads) : threads[t].pc = "put" /\ threads[t].data.n > 1
  /\ queue = <<>>
  /\ lat.pc = "ret"
  /\ lat.data = NoData
  /\ unread = 0

DisplayPriority ==
  [][/\ pc = "render" /\ pc' = "read" =>
          /\ lat.data # NoData => drawn'.kind = "sample" /\ drawn'.data = lat.data
          /\ lat.data = NoData /\ lat.raw # EmptyStr =>
               drawn'.kind = "raw" /\ drawn'.raw = lat.raw
          /\ lat.data = NoData /\ lat.raw = EmptyStr => drawn'.kind = "waiting"
          /\ ~metrics => drawn'.kind = "waiting"
          /\ renders' = [renders EXCEPT ![drawn'.kind] = @ + 1]
     /\ renders' # renders => pc = "render" /\ pc' = "read"
     /\ pc' = "read" =>
          /\ renders'.sample + renders'.raw + renders'.waiting = shown'
          /\ shown' = frame_count']_vars

\* A run has drawn the sample the monitor held, and then the raw line for
\* the frames after it.
SampleThenRaw ==
  /\ renders.sample = 1
  /\ renders.raw > 1
  /\ drawn.kind = "raw"
  /\ drawn.raw = FullLine

\* C15: an inference that raises ends the run as failed, in a step that
\* changes nothing of the monitor; while the run is the failed one no frame
\* is read, inferred, shown, counted, reported or drawn (the counts can only
\* be reset by the next script run); and no step of the loop puts a
\* sample into the queue, starts a thread, or starts or terminates a
\* subprocess: of the monitor it changes only what latest() takes.
InferenceFailureEndsRunOnly ==
  [][/\ pc = "infer" /\ ninfer' # ninfer /\ frame_count' = frame_count =>
          /\ pc' = "idle"
          /\ runEnd' = "failed"
          /\ ninfer' = ninfer + 1
          /\ UNCHANGED monVars
          /\ UNCHANGED <<nreads, shown, reports, renders, drawn>>
     /\ runEnd = "failed" /\ runEnd' = "failed" =>
          /\ pc' = "idle"
          /\ nreads' <= nreads /\ ninfer' <= ninfer /\ shown' <= shown
          /\ frame_count' <= frame_count /\ Len(reports') <= Len(reports)
          /\ \A k \in DOMAIN renders : renders'[k] <= renders[k]
     /\ Loop =>
          /\ queue' = queue \/ (queue # <<>> /\ queue' = Tail(queue))
          /\ UNCHANGED <<made, proc, thread, last_raw, threads, procs, nlines, lastPut>>]_vars

\* A run has failed in its inference while the reader thread is at work and
\* a sample waits in the queue.
RunFailedBesideReader ==
  /\ runEnd = "failed"
  /\ ninfer = 1
  /\ LiveThreads # {}
  /\ queue # <<>>

\* What is a sample: None, or every group of the pattern.
Whole(data) == data = NoData \/ data.fields = AllGroups

\* C16: whatever the lines, a sample the reader holds, the queue holds,
\* latest() returns or was put has every group; the reading of a line records
\* it stripped as the last raw line, and takes the reader to its write, with
\* the sample of that line, exactly when the line has every group.
ParserAllOrNothing ==
  [][/\ \A i \in 1..Len(queue') : queue'[i] # NoData /\ Whole(queue'[i])
     /\ Whole(lat'.data) /\ Whole(lastPut')
     /\ \A t \in 1..Len(threads') : Whole(threads'[t].data)
     /\ nlines' # nlines =>
          /\ nlines' = nlines + 1
          /\ last_raw' = EmptyStr \/ last_raw'.n = nlines'
          /\ \A t \in 1..Len(threads) :
               IF threads[t].pc = "iter" /\ last_raw'.groups = AllGroups
               THEN /\ threads'[t].pc = "evict"
                    /\ threads'[t].data = [n |-> nlines', fields |-> AllGroups]
               ELSE threads'[t] = threads[t]
          /\ UNCHANGED <<queue, lastPut>>]_vars

\* After a line that gave a sample, a line without its EMC group was read:
\* it is the last raw line, and the queue still holds the first line's sample.
OneGroupShortLineRead ==
  /\ nlines = 2
  /\ last_raw.n = 2
  /\ last_raw.groups = AllGroups \ {"emc"}
  /\ queue = <<[n |-> 1, fields |-> AllGroups]>>
  /\ \E t \in 1..Len(threads) : threads[t].pc = "iter"

\* C17: when latest() returns a sample, the raw line it returns with it is
\* _last_raw as it is after the queue was read: the line the sample was
\* parsed from or a later one, or "" after a later line of white space.
PairOrdered ==
  [][lat.pc = "raw" /\ lat'.pc = "ret" /\ lat.data # NoData =>
       /\ lat'.data = lat.data
       /\ lat'.raw # EmptyStr => lat'.raw.n >= lat.data.n
       /\ lat'.raw = EmptyStr => nlines > lat.data.n /\ last_raw = EmptyStr]_vars

\* latest() has returned the sample of the first line with the second line
\* as the raw line: the reader read it between the two reads of latest().
RawNewerThanSample ==
  /\ lat.pc = "ret"
  /\ lat.data.n = 1
  /\ lat.raw.n = 2
  /\ lat.raw.groups # AllGroups

\* C18: udp_running is True only while the UDP run that set it goes on, with
\* its capture open and stored in udp_cap; once that run has ended, however
\* it ended, udp_running is False and "Start UDP Stream" is taken again.
UdpStateTracksRun ==
  udp_running =>
    /\ mode = "udp"
    /\ runEnd = "running"
    /\ udp_cap = cap
    /\ cap # None /\ caps[cap].open

\* C19: while the script runs with monitoring on, tegrastats is installed
\* and neither a reader thread nor tegrastats has failed by itself, the
\* monitor has a reader thread alive, after a stop() as well.
CollectorActiveWhenEnabled ==
  /\ metrics
  /\ env.tool
  /\ \A t \in 1..Len(threads) : threads[t].exit # "error"
  /\ \A p \in 1..Len(procs) : procs[p] # "exited"
  => LiveThreads # {}

====
